---- MODULE Spec2Model ----
(***************************************************************************)
(* Real-time synchronisation layer of the Eduvos platform front end.       *)
(*                                                                         *)
(*   WebSocketService        src/unnamed/part_000 (lib/websocket.ts)       *)
(*   NotificationsDropdown   src/frontend/components/forum-content.tsx     *)
(*                           (push variant) and src/unnamed/part_009       *)
(*                           (polling variant)                             *)
(*   RightSidebar            src/frontend/components/right-sidebar.tsx     *)
(*   ForumContent            src/frontend/components/forum-content.tsx     *)
(*                                                                         *)
(* The host is a single-threaded event loop: every action below is one     *)
(* task of that loop (a method call by the UI, a socket event, a timer     *)
(* firing, the continuation of an awaited fetch).                          *)
(***************************************************************************)
EXTENDS Bags, FiniteSets, Integers, Naturals, Sequences, TLC

----------------------------------------------------------------------------
(* Bounds of the model *)

MaxSockets == 2       \* sockets that exist at the same time (closed ones are collected)
MaxTimers == 2        \* reconnect timers pending at the same time
MaxNotifs == 2        \* notifications the server creates
MaxList == 3          \* length of the retained list the model follows
MaxInFlight == 2      \* HTTP requests of one kind in flight at the same time
MaxHistory == 1       \* forum history requests in flight at the same time
MaxPosted == 2        \* forum messages the server stores
MaxManagerSockets == 4    \* WebSocketManager sockets that exist at the same time
MaxManagerTimers == 2     \* WebSocketManager reconnect timers pending at the same time

(* Program constants *)

maxReconnectAttempts == 5
reconnectDelay == 1000
RetainCap == 20
managerMaxReconnectAttempts == 5
managerReconnectDelay == 3000

Categories == {"general", "ideas"}
Channels == {"notifications", "chat"} \cup Categories

VARIABLES
    sockets,            \* the WebSocket objects: id -> [chan, readyState, onMessage],
                        \* onMessage being the callback its handlers close over; a closed
                        \* socket whose close event was handled is garbage (NoSocket)
    notificationWs,     \* WebSocketService.notificationWs (0 = null)
    chatWs,             \* WebSocketService.chatWs (0 = null)
    forumWs,            \* WebSocketService.forumWs (category -> socket, 0 = no entry)
    reconnectAttempts,  \* WebSocketService.reconnectAttempts
    timers,             \* pending setTimeout callbacks of attemptReconnect (a bag of
                        \* [chan, delay, onMessage]: reconnectFn closes over onMessage)
    closedByCaller,     \* history: the caller's last call on the channel was a disconnect
    subscribed,         \* history: the onMessage callbacks passed to the connect calls
                        \* on the channel since the caller last closed it
    failures            \* history: consecutive failed attempts of the channel,
                        \* counted up to maxReconnectAttempts

svcVars == <<sockets, notificationWs, chatWs, forumWs, reconnectAttempts, timers,
             closedByCaller, subscribed, failures>>

VARIABLES
    mounted,            \* the notifications component has run its mount effect
    notifications,      \* useState<Notification[]>: the retained list
    unreadCount,        \* useState(0): the badge (RightSidebar: onUnreadCountChange)
    lastFetch,          \* polling variant: useState(new Date().toISOString())
    closureLastFetch,   \* polling variant: lastFetch as captured by the mount effect
    srvNotifs,          \* the server's notifications of the user, newest first
    pushQ,              \* notification frames in flight on the push socket
    fetches,            \* GET /notifications requests in flight (a bag)
    marks               \* mark-as-read requests in flight (a bag)

ndVars == <<mounted, notifications, unreadCount, lastFetch, closureLastFetch,
            srvNotifs, pushQ, fetches, marks>>

VARIABLES
    twinNotifications,  \* a second instance of the push component: its list,
    twinUnreadCount,    \* its badge,
    carried,            \* the notifications delivered to the first instance so far
    twinCarried         \* and to the second

twinVars == <<twinNotifications, twinUnreadCount, carried, twinCarried>>

VARIABLES
    selectedCategory,   \* ForumContent: useState("general"); "none" while not mounted
    outcome,            \* what the task that led to this state reported to its caller,
                        \* when the task was a send or a disconnectAll call
    delivered           \* the callbacks that the task that led to this state invoked
                        \* with an inbound message, and the channel of the message

uiVars == <<selectedCategory, outcome, delivered>>

VARIABLES
    messages,           \* ForumContent: useState<ForumMessage[]>([])
    history,            \* forumApi.getMessages requests in flight (a bag)
    posted              \* the server's forum: room -> number of messages posted in it

viewVars == <<messages, history, posted>>

VARIABLES
    managerSockets,     \* the WebSocket objects of WebSocketManager: id -> [type, readyState]
    chatSocket,         \* WebSocketManager.chatSocket (0 = null)
    notificationSocket, \* WebSocketManager.notificationSocket (0 = null)
    userId,             \* WebSocketManager.userId (0 = null)
    managerReconnectAttempts,   \* WebSocketManager.reconnectAttempts
    managerTimers,      \* pending setTimeout callbacks of WebSocketManager.attemptReconnect
                        \* (a bag of [type])
    managerDisconnected,\* history: the last call on the manager was disconnect()
    inbox,              \* the manager sockets on which the server's latest notification
                        \* frame is in flight
    dispatched          \* the window events dispatched for that frame so far

mgrVars == <<managerSockets, chatSocket, notificationSocket, userId,
             managerReconnectAttempts, managerTimers, managerDisconnected,
             inbox, dispatched>>

vars == <<svcVars, ndVars, twinVars, uiVars, viewVars, mgrVars>>

----------------------------------------------------------------------------
(* Helpers *)

RECURSIVE Pow2(_)
Pow2(n) == IF n <= 0 THEN 1 ELSE 2 * Pow2(n - 1)

SocketIds == 1..MaxSockets

NoSocket == [chan |-> "none", readyState |-> "CLOSED", onMessage |-> "none"]

(* the callback of the component that owns a channel, and the callback of a second
   consumer of the same channel *)
FirstListener == "onMessage"

SecondListener == "onMessage2"

Listeners == {FirstListener, SecondListener}

FreeIds == {i \in SocketIds : sockets[i] = NoSocket}

(* the identity of the next WebSocket object *)
NewId == CHOOSE i \in FreeIds : \A j \in FreeIds : i <= j

Min(a, b) == IF a < b THEN a ELSE b

Live(s) == s.readyState \in {"CONNECTING", "OPEN"}

LiveSockets(ch) == {i \in SocketIds : sockets[i].chan = ch /\ Live(sockets[i])}

PendingTimers(ch) == {t \in BagToSet(timers) : t.chan = ch}

TimerCount(ch) ==
    LET S == PendingTimers(ch)
        RECURSIVE Sum(_)
        Sum(T) == IF T = {} THEN 0
                  ELSE LET t == CHOOSE x \in T : TRUE
                       IN  CopiesIn(t, timers) + Sum(T \ {t})
    IN  Sum(S)

Slot(ch) ==
    IF ch = "notifications" THEN notificationWs
    ELSE IF ch = "chat" THEN chatWs
    ELSE forumWs[ch]

(* the room that the forum view opens first *)
DefaultRoom == "general"

(* the value of a parameter the caller does not pass *)
Undefined == "undefined"

(* this.forumWs.get(category) *)
forumWsGet(category) == IF category \in Categories THEN forumWs[category] ELSE 0

IsOpen(i) == i # 0 /\ sockets[i].readyState = "OPEN"

NewWebSocket(ch, onMessage) ==
    [chan |-> ch, readyState |-> "CONNECTING", onMessage |-> onMessage]

(* WebSocket.close(): a connecting or open socket starts closing; otherwise no effect *)
CloseCall(s) == IF Live(s) THEN [s EXCEPT !.readyState = "CLOSING"] ELSE s

----------------------------------------------------------------------------
(* WebSocketService: src/unnamed/part_000 lines 92-269 *)

(* attemptReconnect(reconnectFn): the new value of reconnectAttempts *)
attemptReconnectCount ==
    IF reconnectAttempts < maxReconnectAttempts
    THEN reconnectAttempts + 1
    ELSE reconnectAttempts

(* a backoff that shrinks with the attempt number *)
shrinkingReconnectDelay(attempt) ==
    reconnectDelay * Pow2(maxReconnectAttempts - attempt)

(* attemptReconnect: const delay = this.reconnectDelay * Math.pow(2, this.reconnectAttempts - 1),
   read after the increment, so attempt is 1..maxReconnectAttempts *)
attemptReconnectDelay(attempt) ==
    reconnectDelay * Pow2(attempt - 1)

(* WebSocketManager.attemptReconnect: setTimeout(..., this.reconnectDelay) *)
managerAttemptReconnectDelay(attempt) == managerReconnectDelay

(* setTimeout(reconnectFn, delay), reconnectFn being
   () => this.connectX(..., onMessage) of channel ch *)
ReconnectTimer(ch, onMessage, delay) == [chan |-> ch, delay |-> delay, onMessage |-> onMessage]

(* attemptReconnect(reconnectFn): the timers after the call *)
attemptReconnectTimers(ch, onMessage) ==
    IF reconnectAttempts < maxReconnectAttempts
    THEN timers (+) SetToBag({ReconnectTimer(ch, onMessage,
                                             attemptReconnectDelay(reconnectAttempts + 1))})
    ELSE timers

(* The body of connectNotifications / connectChat / connectForum as run by a caller
   or by a reconnect timer: the early return on an OPEN socket, else a new socket
   that takes the slot *)
connectNotificationsBody(onMessage) ==
    IF IsOpen(notificationWs)
    THEN UNCHANGED <<sockets, notificationWs>>
    ELSE /\ FreeIds # {}
         /\ sockets' = [sockets EXCEPT ![NewId] = NewWebSocket("notifications", onMessage)]
         /\ notificationWs' = NewId

connectChatBody(onMessage) ==
    IF IsOpen(chatWs)
    THEN UNCHANGED <<sockets, chatWs>>
    ELSE /\ FreeIds # {}
         /\ sockets' = [sockets EXCEPT ![NewId] = NewWebSocket("chat", onMessage)]
         /\ chatWs' = NewId

connectForumBody(category, onMessage) ==
    IF IsOpen(forumWs[category])
    THEN UNCHANGED <<sockets, forumWs>>
    ELSE /\ FreeIds # {}
         /\ sockets' = [sockets EXCEPT ![NewId] = NewWebSocket(category, onMessage)]
         /\ forumWs' = [forumWs EXCEPT ![category] = NewId]

(* no inbound message was handled by the task *)
NoDelivery == [chan |-> "none", parsed |-> FALSE, to |-> {}]

(* no send and no disconnectAll was made by the task *)
NoOutcome == [op |-> "none", chan |-> "none", result |-> "none"]

(* how a send call ends: the frame was handed to the socket ("sent"), or the call
   threw an Error ("threw"), or it returned normally without sending ("void");
   the service has no way to return a failure ("NotConnected") *)
Outcome(op, ch, result) == [op |-> op, chan |-> ch, result |-> result]

(* a task of the service that is none of the calls whose outcome is recorded, and
   that touches neither the forum view nor the notification components *)
Silent ==
    /\ outcome' = NoOutcome
    /\ delivered' = NoDelivery
    /\ UNCHANGED <<selectedCategory, ndVars, twinVars, viewVars, mgrVars>>

(* Calls made by the UI layer *)
connectNotifications(onMessage) ==
    /\ connectNotificationsBody(onMessage)
    /\ closedByCaller' = [closedByCaller EXCEPT !["notifications"] = FALSE]
    /\ subscribed' = [subscribed EXCEPT !["notifications"] = @ \cup {onMessage}]
    /\ failures' = [failures EXCEPT !["notifications"] = 0]
    /\ UNCHANGED <<chatWs, forumWs, reconnectAttempts, timers>>
    /\ Silent

connectChat(onMessage) ==
    /\ connectChatBody(onMessage)
    /\ closedByCaller' = [closedByCaller EXCEPT !["chat"] = FALSE]
    /\ subscribed' = [subscribed EXCEPT !["chat"] = @ \cup {onMessage}]
    /\ failures' = [failures EXCEPT !["chat"] = 0]
    /\ UNCHANGED <<notificationWs, forumWs, reconnectAttempts, timers>>
    /\ Silent

connectForum(category, onMessage) ==
    /\ connectForumBody(category, onMessage)
    /\ closedByCaller' = [closedByCaller EXCEPT ![category] = FALSE]
    /\ subscribed' = [subscribed EXCEPT ![category] = @ \cup {onMessage}]
    /\ failures' = [failures EXCEPT ![category] = 0]
    /\ UNCHANGED <<notificationWs, chatWs, reconnectAttempts, timers>>
    /\ Silent

disconnectNotifications ==
    /\ IF notificationWs # 0
       THEN /\ sockets' = [sockets EXCEPT ![notificationWs] = CloseCall(@)]
            /\ notificationWs' = 0
       ELSE UNCHANGED <<sockets, notificationWs>>
    /\ closedByCaller' = [closedByCaller EXCEPT !["notifications"] = TRUE]
    /\ subscribed' = [subscribed EXCEPT !["notifications"] = {}]
    /\ UNCHANGED <<chatWs, forumWs, reconnectAttempts, timers, failures>>
    /\ Silent

disconnectChat ==
    /\ IF chatWs # 0
       THEN /\ sockets' = [sockets EXCEPT ![chatWs] = CloseCall(@)]
            /\ chatWs' = 0
       ELSE UNCHANGED <<sockets, chatWs>>
    /\ closedByCaller' = [closedByCaller EXCEPT !["chat"] = TRUE]
    /\ subscribed' = [subscribed EXCEPT !["chat"] = {}]
    /\ UNCHANGED <<notificationWs, forumWs, reconnectAttempts, timers, failures>>
    /\ Silent

disconnectForum(category) ==
    /\ IF forumWs[category] # 0
       THEN /\ sockets' = [sockets EXCEPT ![forumWs[category]] = CloseCall(@)]
            /\ forumWs' = [forumWs EXCEPT ![category] = 0]
       ELSE UNCHANGED <<sockets, forumWs>>
    /\ closedByCaller' = [closedByCaller EXCEPT ![category] = TRUE]
    /\ subscribed' = [subscribed EXCEPT ![category] = {}]
    /\ UNCHANGED <<notificationWs, chatWs, reconnectAttempts, timers, failures>>
    /\ Silent

(* ws.onopen of socket i: the handshake succeeded *)
onopen(i) ==
    /\ sockets[i].readyState = "CONNECTING"
    /\ sockets' = [sockets EXCEPT ![i].readyState = "OPEN"]
    /\ reconnectAttempts' = 0
    /\ failures' = [failures EXCEPT ![sockets[i].chan] = 0]
    /\ UNCHANGED <<notificationWs, chatWs, forumWs, timers, closedByCaller, subscribed>>
    /\ Silent

(* ws.onclose of socket i: the slot of the channel is cleared, whichever socket it
   holds, and attemptReconnect is called *)
oncloseHandler(i) ==
    LET ch == sockets[i].chan IN
    /\ notificationWs' = IF ch = "notifications" THEN 0 ELSE notificationWs
    /\ chatWs' = IF ch = "chat" THEN 0 ELSE chatWs
    /\ forumWs' = IF ch \in Categories THEN [forumWs EXCEPT ![ch] = 0] ELSE forumWs
    /\ reconnectAttempts' = attemptReconnectCount
    /\ timers' = attemptReconnectTimers(ch, sockets[i].onMessage)

(* a handler that treats a frame that does not parse as a failure of the
   connection and closes the socket *)
closingOnmessage(i, wellFormed) ==
    /\ sockets[i].readyState = "OPEN"
    /\ delivered' = [chan |-> sockets[i].chan,
                     parsed |-> wellFormed,
                     to |-> IF wellFormed THEN {sockets[i].onMessage} ELSE {}]
    /\ outcome' = NoOutcome
    /\ sockets' = IF wellFormed THEN sockets ELSE [sockets EXCEPT ![i] = CloseCall(@)]
    /\ UNCHANGED <<notificationWs, chatWs, forumWs, reconnectAttempts, timers,
                   closedByCaller, subscribed, failures>>
    /\ UNCHANGED <<selectedCategory, ndVars, twinVars, viewVars, mgrVars>>

(* ws.onmessage of socket i: JSON.parse(event.data), then onMessage(data) of the
   callback the socket was created with; a frame that does not parse is logged *)
onmessage(i, wellFormed) ==
    /\ sockets[i].readyState = "OPEN"
    /\ delivered' = [chan |-> sockets[i].chan,
                     parsed |-> wellFormed,
                     to |-> IF wellFormed THEN {sockets[i].onMessage} ELSE {}]
    /\ outcome' = NoOutcome
    /\ UNCHANGED <<svcVars, selectedCategory, ndVars, twinVars, viewVars, mgrVars>>

(* The transport fails or the server closes: handshake refused, abnormal close *)
oncloseUnexpected(i) ==
    /\ Live(sockets[i])
    /\ (reconnectAttempts < maxReconnectAttempts) => (BagCardinality(timers) < MaxTimers)
    /\ sockets' = [sockets EXCEPT ![i] = NoSocket]
    /\ oncloseHandler(i)
    /\ failures' = [failures EXCEPT ![sockets[i].chan] = Min(@ + 1, maxReconnectAttempts)]
    /\ UNCHANGED <<closedByCaller, subscribed>>
    /\ Silent

(* The close event of a socket on which close() was called *)
oncloseAfterCloseCall(i) ==
    /\ sockets[i].readyState = "CLOSING"
    /\ (reconnectAttempts < maxReconnectAttempts) => (BagCardinality(timers) < MaxTimers)
    /\ sockets' = [sockets EXCEPT ![i] = NoSocket]
    /\ oncloseHandler(i)
    /\ UNCHANGED <<closedByCaller, subscribed, failures>>
    /\ Silent

(* A setTimeout callback of attemptReconnect runs reconnectFn *)
reconnectTimerFires(t) ==
    /\ t \in BagToSet(timers)
    /\ timers' = timers (-) SetToBag({t})
    /\ IF t.chan = "notifications"
       THEN connectNotificationsBody(t.onMessage) /\ UNCHANGED <<chatWs, forumWs>>
       ELSE IF t.chan = "chat"
       THEN connectChatBody(t.onMessage) /\ UNCHANGED <<notificationWs, forumWs>>
       ELSE connectForumBody(t.chan, t.onMessage) /\ UNCHANGED <<notificationWs, chatWs>>
    /\ UNCHANGED <<reconnectAttempts, closedByCaller, subscribed, failures>>
    /\ Silent

(* the sockets held by the notification slot, the chat slot and the forum map *)
Registered == ({notificationWs, chatWs} \cup {forumWs[c] : c \in Categories}) \ {0}

(* disconnectAll: close() on the socket of each slot and of each forum entry *)
disconnectAllSockets ==
    [i \in SocketIds |-> IF i \in Registered THEN CloseCall(sockets[i]) ELSE sockets[i]]

(* an iteration that misses the entry after a deleted one, as forEach over an
   array that is spliced while iterated would *)
skippingForumWs == [c \in Categories |-> IF c = DefaultRoom THEN 0 ELSE forumWs[c]]

(* disconnectAll: this.forumWs.forEach((ws, category) => this.disconnectForum(category));
   a Map visits every entry although the visited entry is deleted *)
disconnectAllForumWs == [c \in Categories |-> 0]

(* disconnectAll(): disconnectNotifications(), disconnectChat(), and
   disconnectForum(category) for every entry of the forum map *)
disconnectAll ==
    /\ sockets' = disconnectAllSockets
    /\ notificationWs' = 0
    /\ chatWs' = 0
    /\ forumWs' = disconnectAllForumWs
    /\ closedByCaller' = [ch \in Channels |-> TRUE]
    /\ subscribed' = [ch \in Channels |-> {}]
    /\ outcome' = Outcome("disconnectAll", "all", "returned")
    /\ delivered' = NoDelivery
    /\ UNCHANGED <<reconnectAttempts, timers, failures>>
    /\ UNCHANGED <<selectedCategory, ndVars, twinVars, viewVars, mgrVars>>

(* markNotificationRead(notificationId): sends when the socket is OPEN, else
   falls through the if and returns *)
markNotificationRead ==
    /\ outcome' = Outcome("markNotificationRead", "notifications",
                           IF IsOpen(notificationWs) THEN "sent" ELSE "void")
    /\ delivered' = NoDelivery
    /\ UNCHANGED <<svcVars, selectedCategory, ndVars, twinVars, viewVars, mgrVars>>

(* sendChatMessage(recipientId, content): sends when the socket is OPEN, else
   throw new Error("Chat WebSocket not connected") *)
sendChatMessage ==
    /\ outcome' = Outcome("sendChatMessage", "chat",
                           IF IsOpen(chatWs) THEN "sent" ELSE "threw")
    /\ delivered' = NoDelivery
    /\ UNCHANGED <<svcVars, selectedCategory, ndVars, twinVars, viewVars, mgrVars>>

(* sendForumMessage(category, content): sends when the socket of the category is
   OPEN, else throw new Error(...) *)
sendForumMessage(category) ==
    /\ outcome' = Outcome("sendForumMessage", category,
                           IF IsOpen(forumWsGet(category)) THEN "sent" ELSE "threw")
    /\ delivered' = NoDelivery
    /\ UNCHANGED <<svcVars, selectedCategory, ndVars, twinVars, viewVars, mgrVars>>

----------------------------------------------------------------------------
(* ForumContent: src/frontend/components/forum-content.tsx lines 25-49. The effect
   depends on selectedCategory: it calls connectForum(selectedCategory, ...), and
   its cleanup calls websocketService.disconnectForum() with no argument *)

(* disconnectForum(category): the sockets and the map after the call *)
disconnectedSockets(category) ==
    IF forumWsGet(category) # 0
    THEN [sockets EXCEPT ![forumWsGet(category)] = CloseCall(@)]
    ELSE sockets

disconnectedForumWs(category) ==
    IF forumWsGet(category) # 0
    THEN [forumWs EXCEPT ![category] = 0]
    ELSE forumWs

(* the cleanup of the previous effect followed by the effect for category:
   disconnectForum(cleanupArg), then connectForum(category, onMessage) *)
cleanupThenConnectForum(cleanupArg, category, onMessage) ==
    LET closed == disconnectedSockets(cleanupArg)
        map == disconnectedForumWs(cleanupArg)
        free == {i \in SocketIds : closed[i] = NoSocket}
        ws == CHOOSE i \in free : \A j \in free : i <= j
    IN  IF map[category] # 0 /\ closed[map[category]].readyState = "OPEN"
        THEN /\ sockets' = closed
             /\ forumWs' = map
        ELSE /\ free # {}
             /\ sockets' = [closed EXCEPT ![ws] = NewWebSocket(category, onMessage)]
             /\ forumWs' = [map EXCEPT ![category] = ws]

(* loadMessages: forumApi.getMessages(selectedCategory) is sent *)
HistoryRequest(room) == [room |-> room, answered |-> FALSE, data |-> <<>>]

ForumMessage(room, id) == [category |-> room, id |-> id]

(* the component mounts with selectedCategory "general" and messages []: the
   effect runs, connectForum and then loadMessages() *)
mountForum ==
    /\ selectedCategory = "none"
    /\ BagCardinality(history) < MaxHistory
    /\ selectedCategory' = "general"
    /\ connectForumBody("general", FirstListener)
    /\ history' = history (+) SetToBag({HistoryRequest("general")})
    /\ UNCHANGED <<messages, posted>>
    /\ closedByCaller' = [closedByCaller EXCEPT !["general"] = FALSE]
    /\ subscribed' = [subscribed EXCEPT !["general"] = @ \cup {FirstListener}]
    /\ failures' = [failures EXCEPT !["general"] = 0]
    /\ outcome' = NoOutcome
    /\ delivered' = NoDelivery
    /\ UNCHANGED <<notificationWs, chatWs, reconnectAttempts, timers>>
    /\ UNCHANGED <<ndVars, twinVars, mgrVars>>

(* setSelectedCategory(category) by a click on another room: the cleanup of the
   effect of the previous room runs, then the effect of the new room *)
selectCategory(category) ==
    /\ selectedCategory \notin {"none", category}
    /\ BagCardinality(history) < MaxHistory
    /\ selectedCategory' = category
    /\ cleanupThenConnectForum(Undefined, category, FirstListener)
    /\ history' = history (+) SetToBag({HistoryRequest(category)})
    /\ UNCHANGED <<messages, posted>>
    /\ closedByCaller' = [closedByCaller EXCEPT ![category] = FALSE]
    /\ subscribed' = [subscribed EXCEPT ![category] = @ \cup {FirstListener}]
    /\ failures' = [failures EXCEPT ![category] = 0]
    /\ outcome' = NoOutcome
    /\ delivered' = NoDelivery
    /\ UNCHANGED <<notificationWs, chatWs, reconnectAttempts, timers>>
    /\ UNCHANGED <<ndVars, twinVars, mgrVars>>

(* the component unmounts: only the cleanup runs; its state is discarded *)
unmountForum ==
    /\ selectedCategory # "none"
    /\ selectedCategory' = "none"
    /\ sockets' = disconnectedSockets(Undefined)
    /\ forumWs' = disconnectedForumWs(Undefined)
    /\ messages' = <<>>
    /\ UNCHANGED <<history, posted>>
    /\ outcome' = NoOutcome
    /\ delivered' = NoDelivery
    /\ UNCHANGED <<notificationWs, chatWs, reconnectAttempts, timers, closedByCaller,
                   subscribed, failures>>
    /\ UNCHANGED <<ndVars, twinVars, mgrVars>>

(* the server answers a history request (GET /forum/messages?category=room) with
   the messages it holds for the room at that moment *)
serverAnswersHistory(f) ==
    /\ f \in BagToSet(history)
    /\ ~f.answered
    /\ history' = (history (-) SetToBag({f}))
                    (+) SetToBag({[f EXCEPT !.answered = TRUE, !.data = [k \in 1..posted[f.room] |->
                                                        ForumMessage(f.room, k)]]})
    /\ UNCHANGED <<messages, posted>>
    /\ UNCHANGED <<svcVars, ndVars, twinVars, uiVars, mgrVars>>

(* the continuation of loadMessages after the await: setMessages(data); a state
   update of a component that has unmounted is dropped *)
loadMessagesResolves(f) ==
    /\ f \in BagToSet(history)
    /\ f.answered
    /\ history' = history (-) SetToBag({f})
    /\ messages' = IF selectedCategory = "none" THEN messages ELSE f.data
    /\ UNCHANGED posted
    /\ UNCHANGED <<svcVars, ndVars, twinVars, uiVars, mgrVars>>

(* the request is rejected: the catch block of loadMessages logs *)
loadMessagesFails(f) ==
    /\ f \in BagToSet(history)
    /\ history' = history (-) SetToBag({f})
    /\ UNCHANGED <<messages, posted>>
    /\ UNCHANGED <<svcVars, ndVars, twinVars, uiVars, mgrVars>>

(* the server stores a message posted in the room of socket i and its frame reaches
   the socket: ws.onmessage parses it and calls the callback given to connectForum,
   (message) => { setMessages((prev) => [...prev, message]) } *)
forumFrameArrives(i) ==
    LET room == sockets[i].chan IN
    /\ sockets[i].readyState = "OPEN"
    /\ room \in Categories
    /\ posted["general"] + posted["ideas"] < MaxPosted
    /\ posted' = [posted EXCEPT ![room] = @ + 1]
    /\ messages' = IF selectedCategory = "none" THEN messages
                   ELSE Append(messages, ForumMessage(room, posted[room] + 1))
    /\ delivered' = [chan |-> room, parsed |-> TRUE, to |-> {sockets[i].onMessage}]
    /\ outcome' = NoOutcome
    /\ UNCHANGED history
    /\ UNCHANGED <<svcVars, selectedCategory, ndVars, twinVars, mgrVars>>

ViewInit ==
    /\ messages = <<>>
    /\ history = EmptyBag
    /\ posted = [c \in Categories |-> 0]

SvcInit ==
    /\ sockets = [i \in SocketIds |-> NoSocket]
    /\ notificationWs = 0
    /\ chatWs = 0
    /\ forumWs = [c \in Categories |-> 0]
    /\ reconnectAttempts = 0
    /\ timers = EmptyBag
    /\ closedByCaller = [ch \in Channels |-> FALSE]
    /\ subscribed = [ch \in Channels |-> {}]
    /\ failures = [ch \in Channels |-> 0]

----------------------------------------------------------------------------
(* Notifications: the server as the client sees it *)

NotifIds == 1..MaxNotifs

NoSince == 0 - 1

(* the server's clock: it advances with every notification created *)
Now == Len(srvNotifs)

Notification(id, read) == [id |-> id, is_read |-> read, created_at |-> id]

(* GET /notifications?since= : all notifications, or those created after since *)
ServerSnapshot(since) ==
    IF since = NoSince THEN srvNotifs
    ELSE SelectSeq(srvNotifs, LAMBDA n : n.created_at > since)

(* PATCH /notifications/{id}/read on the server *)
ServerMarked(id) ==
    [i \in DOMAIN srvNotifs |->
        IF srvNotifs[i].id = id THEN [srvNotifs[i] EXCEPT !.is_read = 1] ELSE srvNotifs[i]]

(* the notifications of the user that the server already holds when the component
   mounts, in the runs that start with a backlog: one less than the retained size *)
Backlog == RetainCap - 1

BacklogNotifs == [i \in 1..Backlog |-> Notification(Backlog + 1 - i, 1)]

(* the server creates at most MaxNotifs notifications beyond those it starts with *)
MayCreate ==
    \/ Len(srvNotifs) < MaxNotifs
    \/ Backlog <= Len(srvNotifs) /\ Len(srvNotifs) < Backlog + MaxNotifs

(* the model follows a list up to MaxList entries, or up to what a server that
   started with a backlog can fill *)
MayGrow(list) ==
    \/ Len(list) < MaxList
    \/ Backlog <= Len(srvNotifs) /\ Len(list) <= Backlog + MaxNotifs

(* the server creates a notification and, when push is set, sends it on the socket *)
serverCreates(push) ==
    /\ MayCreate
    /\ push => mounted
    /\ LET n == Notification(Len(srvNotifs) + 1, 0) IN
       /\ srvNotifs' = <<n>> \o srvNotifs
       /\ pushQ' = IF push THEN Append(pushQ, n) ELSE pushQ
    /\ UNCHANGED <<mounted, notifications, unreadCount, lastFetch, closureLastFetch,
                   fetches, marks>>
    /\ UNCHANGED <<svcVars, twinVars, uiVars, viewVars, mgrVars>>

(* the server answers a GET with the notifications it holds at that moment *)
serverAnswers(f) ==
    /\ f \in BagToSet(fetches)
    /\ ~f.answered
    /\ fetches' = (fetches (-) SetToBag({f}))
                    (+) SetToBag({[f EXCEPT !.answered = TRUE,
                                            !.data = ServerSnapshot(f.since)]})
    /\ UNCHANGED <<mounted, notifications, unreadCount, lastFetch, closureLastFetch,
                   srvNotifs, pushQ, marks>>
    /\ UNCHANGED <<svcVars, twinVars, uiVars, viewVars, mgrVars>>

(* the server applies a mark-as-read request *)
serverMarks(m) ==
    /\ m \in BagToSet(marks)
    /\ ~m.applied
    /\ srvNotifs' = ServerMarked(m.id)
    /\ marks' = (marks (-) SetToBag({m})) (+) SetToBag({[m EXCEPT !.applied = TRUE]})
    /\ UNCHANGED <<mounted, notifications, unreadCount, lastFetch, closureLastFetch,
                   pushQ, fetches>>
    /\ UNCHANGED <<svcVars, twinVars, uiVars, viewVars, mgrVars>>

----------------------------------------------------------------------------
(* NotificationsDropdown, push variant: src/frontend/components/forum-content.tsx
   lines 216-256; polling variant: src/unnamed/part_009; RightSidebar:
   src/frontend/components/right-sidebar.tsx lines 13-50 *)

Take(list, k) == SubSeq(list, 1, Min(k, Len(list)))

Max(a, b) == IF a > b THEN a ELSE b

(* data.filter((n) => n.is_read === 0).length *)
Unread(list) == Cardinality({i \in DOMAIN list : list[i].is_read = 0})

IdsOf(list) == {list[i].id : i \in DOMAIN list}

Request(since) == [since |-> since, answered |-> FALSE, data |-> <<>>]

(* push handler: setNotifications((prev) => [notification, ...prev].slice(0, 20)) *)
pushNotifications(prev, n) == Take(<<n>> \o prev, RetainCap)

(* push handler: setUnreadCount((prev) => prev + 1) *)
pushUnreadCount(prev) == prev + 1

(* loadNotifications of the push variant and of RightSidebar: setNotifications(data) *)
loadedNotifications(prev, data) == data

(* ... and the count of the unread entries of data *)
loadedUnreadCount(data) == Unread(data)

(* loadNotifications of the polling variant:
   if (data.length > 0) setNotifications((prev) => [...data, ...prev].slice(0, 20)) *)
polledNotifications(prev, data) ==
    IF Len(data) > 0 THEN Take(data \o prev, RetainCap) ELSE prev

(* the notifications that the polling variant's loadNotifications reads: the mount
   effect has no dependencies, so it keeps the loadNotifications of the first
   render, whose notifications is the initial state [] *)
closureNotifications == <<>>

(* polling variant: notifications.filter((n) => n.is_read === 0).length *)
polledUnreadCount == Unread(closureNotifications)

(* handleMarkAsRead: prev.map((n) => (n.id === notificationId ? {...n, is_read: 1} : n)) *)
markedNotifications(prev, id) ==
    [i \in DOMAIN prev |-> IF prev[i].id = id THEN [prev[i] EXCEPT !.is_read = 1] ELSE prev[i]]

(* handleMarkAsRead: setUnreadCount((prev) => Math.max(0, prev - 1)) *)
markedUnreadCount(prev) == Max(0, prev - 1)

(* The effect of the push variant (and the effects of RightSidebar) call
   loadNotifications(): a GET without since *)
loadNotifications ==
    /\ BagCardinality(fetches) < MaxInFlight
    /\ mounted' = TRUE
    /\ fetches' = fetches (+) SetToBag({Request(NoSince)})
    /\ UNCHANGED <<notifications, unreadCount, lastFetch, closureLastFetch,
                   srvNotifs, pushQ, marks>>
    /\ UNCHANGED <<svcVars, twinVars, uiVars, viewVars, mgrVars>>

(* the continuation of loadNotifications after the await *)
loadNotificationsResolves(f) ==
    /\ f \in BagToSet(fetches)
    /\ f.answered
    /\ fetches' = fetches (-) SetToBag({f})
    /\ notifications' = loadedNotifications(notifications, f.data)
    /\ unreadCount' = loadedUnreadCount(f.data)
    /\ UNCHANGED <<mounted, lastFetch, closureLastFetch, srvNotifs, pushQ, marks>>
    /\ UNCHANGED <<svcVars, twinVars, uiVars, viewVars, mgrVars>>

(* the onMessage callback given to connectNotifications *)
pushHandler ==
    /\ pushQ # <<>>
    /\ MayGrow(notifications)
    /\ notifications' = pushNotifications(notifications, Head(pushQ))
    /\ unreadCount' = pushUnreadCount(unreadCount)
    /\ pushQ' = Tail(pushQ)
    /\ UNCHANGED <<mounted, lastFetch, closureLastFetch, srvNotifs, fetches, marks>>
    /\ UNCHANGED <<svcVars, twinVars, uiVars, viewVars, mgrVars>>

(* polling variant, mount: the first render fixes lastFetch, the effect calls
   loadNotifications() and starts the interval *)
mountPolling ==
    /\ ~mounted
    /\ mounted' = TRUE
    /\ lastFetch' = Now
    /\ closureLastFetch' = Now
    /\ fetches' = fetches (+) SetToBag({Request(NoSince)})
    /\ UNCHANGED <<notifications, unreadCount, srvNotifs, pushQ, marks>>
    /\ UNCHANGED <<svcVars, twinVars, uiVars, viewVars, mgrVars>>

(* polling variant, the interval callback: loadNotifications(lastFetch) *)
pollTick ==
    /\ mounted
    /\ BagCardinality(fetches) < MaxInFlight
    /\ fetches' = fetches (+) SetToBag({Request(closureLastFetch)})
    /\ UNCHANGED <<mounted, notifications, unreadCount, lastFetch, closureLastFetch,
                   srvNotifs, pushQ, marks>>
    /\ UNCHANGED <<svcVars, twinVars, uiVars, viewVars, mgrVars>>

(* polling variant: the continuation of loadNotifications after the await *)
pollResolves(f) ==
    /\ f \in BagToSet(fetches)
    /\ f.answered
    /\ Len(f.data) + Len(notifications) <= MaxList
    /\ fetches' = fetches (-) SetToBag({f})
    /\ notifications' = polledNotifications(notifications, f.data)
    /\ lastFetch' = IF Len(f.data) > 0 THEN Now ELSE lastFetch
    /\ unreadCount' = polledUnreadCount
    /\ UNCHANGED <<mounted, closureLastFetch, srvNotifs, pushQ, marks>>
    /\ UNCHANGED <<svcVars, twinVars, uiVars, viewVars, mgrVars>>

(* a click on an entry of the list: handleMarkAsRead / markAsRead sends the request *)
handleMarkAsRead(id) ==
    /\ id \in IdsOf(notifications)
    /\ BagCardinality(marks) < MaxInFlight
    /\ marks' = marks (+) SetToBag({[id |-> id, applied |-> FALSE]})
    /\ UNCHANGED <<mounted, notifications, unreadCount, lastFetch, closureLastFetch,
                   srvNotifs, pushQ, fetches>>
    /\ UNCHANGED <<svcVars, twinVars, uiVars, viewVars, mgrVars>>

(* both dropdown variants: the continuation of handleMarkAsRead after the await *)
handleMarkAsReadResolves(m) ==
    /\ m \in BagToSet(marks)
    /\ m.applied
    /\ marks' = marks (-) SetToBag({m})
    /\ notifications' = markedNotifications(notifications, m.id)
    /\ unreadCount' = markedUnreadCount(unreadCount)
    /\ UNCHANGED <<mounted, lastFetch, closureLastFetch, srvNotifs, pushQ, fetches>>
    /\ UNCHANGED <<svcVars, twinVars, uiVars, viewVars, mgrVars>>

(* RightSidebar: the continuation of markAsRead after the await: loadNotifications() *)
markAsReadResolves(m) ==
    /\ m \in BagToSet(marks)
    /\ m.applied
    /\ BagCardinality(fetches) < MaxInFlight
    /\ marks' = marks (-) SetToBag({m})
    /\ fetches' = fetches (+) SetToBag({Request(NoSince)})
    /\ UNCHANGED <<mounted, notifications, unreadCount, lastFetch, closureLastFetch,
                   srvNotifs, pushQ>>
    /\ UNCHANGED <<svcVars, twinVars, uiVars, viewVars, mgrVars>>

(* all three components: the mark-as-read request is rejected (fetch fails or the
   response is not ok, fetchWithAuth throws); the catch block logs and returns *)
handleMarkAsReadFails(m) ==
    /\ m \in BagToSet(marks)
    /\ marks' = marks (-) SetToBag({m})
    /\ UNCHANGED <<mounted, notifications, unreadCount, lastFetch, closureLastFetch,
                   srvNotifs, pushQ, fetches>>
    /\ UNCHANGED <<svcVars, twinVars, uiVars, viewVars, mgrVars>>

NdInit ==
    /\ mounted = FALSE
    /\ notifications = <<>>
    /\ unreadCount = 0
    /\ lastFetch = 0
    /\ closureLastFetch = 0
    /\ srvNotifs = <<>>
    /\ pushQ = <<>>
    /\ fetches = EmptyBag
    /\ marks = EmptyBag

(* the state when the component mounts for a user with a backlog of notifications *)
BacklogInit ==
    /\ mounted = FALSE
    /\ notifications = <<>>
    /\ unreadCount = 0
    /\ lastFetch = 0
    /\ closureLastFetch = 0
    /\ srvNotifs = BacklogNotifs
    /\ pushQ = <<>>
    /\ fetches = EmptyBag
    /\ marks = EmptyBag

(* The push variant of NotificationsDropdown with its server *)
PushNext ==
    \/ loadNotifications
    \/ \E push \in BOOLEAN : serverCreates(push)
    \/ \E f \in BagToSet(fetches) : serverAnswers(f)
    \/ \E m \in BagToSet(marks) : serverMarks(m)
    \/ \E f \in BagToSet(fetches) : loadNotificationsResolves(f)
    \/ pushHandler
    \/ \E id \in NotifIds : handleMarkAsRead(id)
    \/ \E m \in BagToSet(marks) : handleMarkAsReadResolves(m)
    \/ \E m \in BagToSet(marks) : handleMarkAsReadFails(m)

(* The polling variant of NotificationsDropdown with its server *)
PollNext ==
    \/ mountPolling
    \/ pollTick
    \/ serverCreates(FALSE)
    \/ \E f \in BagToSet(fetches) : serverAnswers(f)
    \/ \E m \in BagToSet(marks) : serverMarks(m)
    \/ \E f \in BagToSet(fetches) : pollResolves(f)
    \/ \E id \in NotifIds : handleMarkAsRead(id)
    \/ \E m \in BagToSet(marks) : handleMarkAsReadResolves(m)
    \/ \E m \in BagToSet(marks) : handleMarkAsReadFails(m)

(* RightSidebar with its server *)
SidebarNext ==
    \/ loadNotifications
    \/ serverCreates(FALSE)
    \/ \E f \in BagToSet(fetches) : serverAnswers(f)
    \/ \E m \in BagToSet(marks) : serverMarks(m)
    \/ \E f \in BagToSet(fetches) : loadNotificationsResolves(f)
    \/ \E id \in NotifIds : handleMarkAsRead(id)
    \/ \E m \in BagToSet(marks) : markAsReadResolves(m)
    \/ \E m \in BagToSet(marks) : handleMarkAsReadFails(m)

----------------------------------------------------------------------------
(* Two instances of the push variant fed by deliveries in any order *)

NotifValues == {Notification(id, read) : id \in NotifIds, read \in {0, 1}}

(* the batches a GET can return: distinct ids, newest first *)
Batches ==
    {<<>>} \cup {<<n>> : n \in NotifValues}
           \cup {p \in NotifValues \X NotifValues : p[2].id < p[1].id}

SeqToSet(list) == {list[i] : i \in DOMAIN list}

onPush(n) ==
    /\ Len(notifications) < MaxList
    /\ notifications' = pushNotifications(notifications, n)
    /\ unreadCount' = pushUnreadCount(unreadCount)
    /\ carried' = carried \cup {n}
    /\ UNCHANGED <<twinNotifications, twinUnreadCount, twinCarried>>
    /\ UNCHANGED <<mounted, lastFetch, closureLastFetch, srvNotifs, pushQ, fetches, marks>>
    /\ UNCHANGED <<svcVars, uiVars, viewVars, mgrVars>>

onPull(batch) ==
    /\ notifications' = loadedNotifications(notifications, batch)
    /\ unreadCount' = loadedUnreadCount(batch)
    /\ carried' = carried \cup SeqToSet(batch)
    /\ UNCHANGED <<twinNotifications, twinUnreadCount, twinCarried>>
    /\ UNCHANGED <<mounted, lastFetch, closureLastFetch, srvNotifs, pushQ, fetches, marks>>
    /\ UNCHANGED <<svcVars, uiVars, viewVars, mgrVars>>

twinOnPush(n) ==
    /\ Len(twinNotifications) < MaxList
    /\ twinNotifications' = pushNotifications(twinNotifications, n)
    /\ twinUnreadCount' = pushUnreadCount(twinUnreadCount)
    /\ twinCarried' = twinCarried \cup {n}
    /\ UNCHANGED <<notifications, unreadCount, carried>>
    /\ UNCHANGED <<mounted, lastFetch, closureLastFetch, srvNotifs, pushQ, fetches, marks>>
    /\ UNCHANGED <<svcVars, uiVars, viewVars, mgrVars>>

twinOnPull(batch) ==
    /\ twinNotifications' = loadedNotifications(twinNotifications, batch)
    /\ twinUnreadCount' = loadedUnreadCount(batch)
    /\ twinCarried' = twinCarried \cup SeqToSet(batch)
    /\ UNCHANGED <<notifications, unreadCount, carried>>
    /\ UNCHANGED <<mounted, lastFetch, closureLastFetch, srvNotifs, pushQ, fetches, marks>>
    /\ UNCHANGED <<svcVars, uiVars, viewVars, mgrVars>>

TwinInit ==
    /\ twinNotifications = <<>>
    /\ twinUnreadCount = 0
    /\ carried = {}
    /\ twinCarried = {}

(* a notification is new, hence unread, when the server pushes it *)
Pushable == {n \in NotifValues : n.is_read = 0}

MergeNext ==
    \/ \E n \in Pushable : onPush(n)
    \/ \E batch \in Batches : onPull(batch)
    \/ \E n \in Pushable : twinOnPush(n)
    \/ \E batch \in Batches : twinOnPull(batch)

----------------------------------------------------------------------------
(* WebSocketManager: src/frontend/lib/websocket.ts lines 3-121, the singleton
   wsManager that DashboardPage and CollaborationRoomsPage connect in an effect
   and disconnect in its cleanup *)

ManagerSocketIds == 1..MaxManagerSockets

(* the id of the one user of the session *)
UserIds == {1}

NoManagerSocket == [type |-> "none", readyState |-> "CLOSED"]

ManagerFreeIds == {i \in ManagerSocketIds : managerSockets[i] = NoManagerSocket}

(* a socket whose close event was handled stays an object as long as a field of
   the manager refers to it; after that it is garbage *)
Collected(socks, chat, notification) ==
    [i \in ManagerSocketIds |->
        IF socks[i].readyState = "CLOSED" /\ i \notin {chat, notification}
        THEN NoManagerSocket
        ELSE socks[i]]

NewManagerSocket(type) == [type |-> type, readyState |-> "CONNECTING"]

(* a connectChat without the guard on userId *)
unguardedConnectChat ==
    /\ ManagerFreeIds # {}
    /\ LET ws == CHOOSE i \in ManagerFreeIds : \A j \in ManagerFreeIds : i <= j IN
       /\ managerSockets' = Collected([managerSockets EXCEPT ![ws] = NewManagerSocket("chat")],
                                      ws, notificationSocket)
       /\ chatSocket' = ws
    /\ UNCHANGED notificationSocket

(* connectChat(): if (!this.userId) return; this.chatSocket = new WebSocket(...);
   the socket the field held before is neither closed nor looked at *)
managerConnectChat ==
    IF userId = 0
    THEN UNCHANGED <<managerSockets, chatSocket, notificationSocket>>
    ELSE /\ ManagerFreeIds # {}
         /\ LET ws == CHOOSE i \in ManagerFreeIds : \A j \in ManagerFreeIds : i <= j IN
            /\ managerSockets' = Collected([managerSockets EXCEPT ![ws] = NewManagerSocket("chat")],
                                           ws, notificationSocket)
            /\ chatSocket' = ws
         /\ UNCHANGED notificationSocket

(* connectNotifications(): the same for this.notificationSocket *)
managerConnectNotifications ==
    IF userId = 0
    THEN UNCHANGED <<managerSockets, chatSocket, notificationSocket>>
    ELSE /\ ManagerFreeIds # {}
         /\ LET ws == CHOOSE i \in ManagerFreeIds : \A j \in ManagerFreeIds : i <= j IN
            /\ managerSockets' = Collected([managerSockets EXCEPT
                                               ![ws] = NewManagerSocket("notification")],
                                           chatSocket, ws)
            /\ notificationSocket' = ws
         /\ UNCHANGED chatSocket

(* a task of the manager touches nothing of the service and of the components *)
ManagerFrame == UNCHANGED <<svcVars, ndVars, twinVars, uiVars, viewVars>>

(* connect(userId): this.userId = userId; this.connectChat(); this.connectNotifications() *)
managerConnect(u) ==
    /\ Cardinality(ManagerFreeIds) >= 2
    /\ LET chat == CHOOSE i \in ManagerFreeIds : \A j \in ManagerFreeIds : i <= j
           notification == CHOOSE i \in ManagerFreeIds \ {chat} :
                               \A j \in ManagerFreeIds \ {chat} : i <= j
       IN  /\ managerSockets' =
                 Collected([managerSockets EXCEPT ![chat] = NewManagerSocket("chat"),
                                                  ![notification] = NewManagerSocket("notification")],
                           chat, notification)
           /\ chatSocket' = chat
           /\ notificationSocket' = notification
    /\ userId' = u
    /\ managerDisconnected' = FALSE
    /\ UNCHANGED <<managerReconnectAttempts, managerTimers, inbox, dispatched>>
    /\ ManagerFrame

(* disconnect(): close() on the socket of each field, the fields and userId set to
   null, reconnectAttempts to 0; pending timers are left alone *)
managerDisconnect ==
    /\ managerSockets' =
          Collected([i \in ManagerSocketIds |->
                        IF i \in {chatSocket, notificationSocket}
                        THEN CloseCall(managerSockets[i])
                        ELSE managerSockets[i]], 0, 0)
    /\ chatSocket' = 0
    /\ notificationSocket' = 0
    /\ userId' = 0
    /\ managerReconnectAttempts' = 0
    /\ managerDisconnected' = TRUE
    /\ UNCHANGED <<managerTimers, inbox, dispatched>>
    /\ ManagerFrame

(* onopen of manager socket i: this.reconnectAttempts = 0 *)
managerOnopen(i) ==
    /\ managerSockets[i].readyState = "CONNECTING"
    /\ managerSockets' = [managerSockets EXCEPT ![i].readyState = "OPEN"]
    /\ managerReconnectAttempts' = 0
    /\ UNCHANGED <<chatSocket, notificationSocket, userId, managerTimers,
                   managerDisconnected, inbox, dispatched>>
    /\ ManagerFrame

(* onclose of manager socket i: this.attemptReconnect(type); the field is not
   cleared. attemptReconnect returns when reconnectAttempts has reached
   maxReconnectAttempts, else increments it and starts a timer of reconnectDelay *)
managerOncloseHandler(i) ==
    /\ managerSockets' = Collected([managerSockets EXCEPT ![i].readyState = "CLOSED"],
                                   chatSocket, notificationSocket)
    /\ IF managerReconnectAttempts >= managerMaxReconnectAttempts
       THEN UNCHANGED <<managerReconnectAttempts, managerTimers>>
       ELSE /\ BagCardinality(managerTimers) < MaxManagerTimers
            /\ managerReconnectAttempts' = managerReconnectAttempts + 1
            /\ managerTimers' = managerTimers (+) SetToBag({[type |-> managerSockets[i].type]})
    /\ inbox' = inbox \ {i}
    /\ UNCHANGED <<chatSocket, notificationSocket, userId, managerDisconnected, dispatched>>
    /\ ManagerFrame

(* the transport fails or the server closes *)
managerOncloseUnexpected(i) ==
    /\ Live(managerSockets[i])
    /\ managerOncloseHandler(i)

(* the close event of a socket on which disconnect() called close() *)
managerOncloseAfterCloseCall(i) ==
    /\ managerSockets[i].readyState = "CLOSING"
    /\ managerOncloseHandler(i)

(* the setTimeout callback of attemptReconnect:
   type === "chat" ? this.connectChat() : this.connectNotifications() *)
managerTimerFires(t) ==
    /\ t \in BagToSet(managerTimers)
    /\ managerTimers' = managerTimers (-) SetToBag({t})
    /\ IF t.type = "chat" THEN managerConnectChat ELSE managerConnectNotifications
    /\ UNCHANGED <<userId, managerReconnectAttempts, managerDisconnected, inbox, dispatched>>
    /\ ManagerFrame

(* the server sends a notification frame to the user: one copy on every open
   notification connection of the user *)
serverSendsFrame ==
    /\ inbox = {}
    /\ inbox' = {i \in ManagerSocketIds : /\ managerSockets[i].type = "notification"
                                          /\ managerSockets[i].readyState = "OPEN"}
    /\ inbox' # {}
    /\ dispatched' = 0
    /\ UNCHANGED <<managerSockets, chatSocket, notificationSocket, userId,
                   managerReconnectAttempts, managerTimers, managerDisconnected>>
    /\ ManagerFrame

(* onmessage of manager socket i for the frame in flight: JSON.parse, then
   window.dispatchEvent(new CustomEvent("newNotification", { detail: data })) *)
managerOnmessage(i) ==
    /\ i \in inbox
    /\ managerSockets[i].readyState = "OPEN"
    /\ inbox' = inbox \ {i}
    /\ dispatched' = dispatched + 1
    /\ UNCHANGED <<managerSockets, chatSocket, notificationSocket, userId,
                   managerReconnectAttempts, managerTimers, managerDisconnected>>
    /\ ManagerFrame

ManagerInit ==
    /\ managerSockets = [i \in ManagerSocketIds |-> NoManagerSocket]
    /\ chatSocket = 0
    /\ notificationSocket = 0
    /\ userId = 0
    /\ managerReconnectAttempts = 0
    /\ managerTimers = EmptyBag
    /\ managerDisconnected = FALSE
    /\ inbox = {}
    /\ dispatched = 0

(* the socket events and timer firings of the manager *)
ManagerEvents ==
    \/ \E i \in ManagerSocketIds : managerOnopen(i)
    \/ \E i \in ManagerSocketIds : managerOncloseUnexpected(i)
    \/ \E i \in ManagerSocketIds : managerOncloseAfterCloseCall(i)
    \/ \E t \in BagToSet(managerTimers) : managerTimerFires(t)

(* DashboardPage / CollaborationRoomsPage, useEffect(..., [user]): the effect runs
   when no earlier effect is active (its cleanup ran first), and calls
   wsManager.connect(user.id) *)
effectConnects(u) ==
    /\ userId = 0
    /\ managerConnect(u)

(* A page that connects the manager in its effect and disconnects it in the
   cleanup; the cleanup is returned also by an effect that found no user *)
ManagerNext ==
    \/ \E u \in UserIds : effectConnects(u)
    \/ managerDisconnect
    \/ ManagerEvents

(* ... with the notification frames of the server *)
DeliverNext ==
    \/ ManagerNext
    \/ serverSendsFrame
    \/ \E i \in ManagerSocketIds : managerOnmessage(i)

----------------------------------------------------------------------------

(* The socket events and timer firings of the host's event loop *)
SocketEvents ==
    \/ \E i \in SocketIds : onopen(i)
    \/ \E i \in SocketIds : oncloseUnexpected(i)
    \/ \E i \in SocketIds : oncloseAfterCloseCall(i)
    \/ \E t \in BagToSet(timers) : reconnectTimerFires(t)

(* The per-user channels: notifications and direct messages *)
Next ==
    \/ connectNotifications(FirstListener)
    \/ connectChat(FirstListener)
    \/ disconnectNotifications
    \/ disconnectChat
    \/ SocketEvents

(* The direct-message channel alone *)
ChatNext ==
    \/ connectChat(FirstListener)
    \/ disconnectChat
    \/ SocketEvents

UiInit ==
    /\ selectedCategory = "none"
    /\ outcome = NoOutcome
    /\ delivered = NoDelivery

(* Direct messages and the default forum room, with the calls that send on them *)
SendNext ==
    \/ connectChat(FirstListener)
    \/ connectForum(DefaultRoom, FirstListener)
    \/ disconnectChat
    \/ disconnectForum(DefaultRoom)
    \/ sendChatMessage
    \/ \E category \in Categories : sendForumMessage(category)
    \/ SocketEvents

(* The per-user channels with the calls that send on them *)
MarkNext ==
    \/ connectNotifications(FirstListener)
    \/ connectChat(FirstListener)
    \/ disconnectNotifications
    \/ disconnectChat
    \/ markNotificationRead
    \/ sendChatMessage
    \/ SocketEvents

(* the socket events of a session in which the transport does not fail *)
HealthyEvents ==
    \/ \E i \in SocketIds : onopen(i)
    \/ \E i \in SocketIds : oncloseAfterCloseCall(i)
    \/ \E t \in BagToSet(timers) : reconnectTimerFires(t)

(* A session that opens any of the channels and ends with disconnectAll (logout) *)
AllNext ==
    \/ connectNotifications(FirstListener)
    \/ connectChat(FirstListener)
    \/ \E category \in Categories : connectForum(category, FirstListener)
    \/ disconnectAll
    \/ HealthyEvents

(* The notifications channel with two consumers and its inbound messages *)
ListenNext ==
    \/ \E onMessage \in Listeners : connectNotifications(onMessage)
    \/ disconnectNotifications
    \/ \E i \in SocketIds, wellFormed \in BOOLEAN : onmessage(i, wellFormed)
    \/ SocketEvents

(* the socket events of the forum view: it never has close() called on a socket,
   its cleanup names no room, so every close event is an unexpected one *)
RoomEvents ==
    \/ \E i \in SocketIds : onopen(i)
    \/ \E i \in SocketIds : oncloseUnexpected(i)
    \/ \E t \in BagToSet(timers) : reconnectTimerFires(t)

(* the history requests of the forum view: answer, continuation, rejection *)
HistoryEvents ==
    \/ \E f \in BagToSet(history) : serverAnswersHistory(f)
    \/ \E f \in BagToSet(history) : loadMessagesResolves(f)
    \/ \E f \in BagToSet(history) : loadMessagesFails(f)

(* The forum view and its rooms *)
RoomNext ==
    \/ mountForum
    \/ \E category \in Categories : selectCategory(category)
    \/ unmountForum
    \/ RoomEvents
    \/ HistoryEvents

(* The forum view with the messages of its rooms, on a transport that does not fail *)
ViewNext ==
    \/ mountForum
    \/ \E category \in Categories : selectCategory(category)
    \/ unmountForum
    \/ \E i \in SocketIds : onopen(i)
    \/ \E i \in SocketIds : forumFrameArrives(i)
    \/ HistoryEvents

Init == SvcInit /\ NdInit /\ TwinInit /\ UiInit /\ ViewInit /\ ManagerInit

Spec == Init /\ [][Next]_vars

SpecChat == Init /\ [][ChatNext]_vars

(* a pending reconnect timer of channel ch fires *)
reconnectTimerFiresFor(ch) ==
    \E t \in BagToSet(timers) : t.chan = ch /\ reconnectTimerFires(t)

(* the host runs every timer callback that stays due *)
TimersFire == \A ch \in Channels : WF_vars(reconnectTimerFiresFor(ch))

(* the host delivers the close event of every socket on which close() was called *)
CloseEventsArrive == WF_vars(\E i \in SocketIds : oncloseAfterCloseCall(i))

SpecLive == Init /\ [][Next]_vars /\ TimersFire /\ CloseEventsArrive

SpecRoom == Init /\ [][RoomNext]_vars

SpecView == Init /\ [][ViewNext]_vars

SpecSend == Init /\ [][SendNext]_vars

SpecMark == Init /\ [][MarkNext]_vars

SpecManager == Init /\ [][ManagerNext]_vars

SpecDeliver == Init /\ [][DeliverNext]_vars

SpecAll == Init /\ [][AllNext]_vars

SpecListen == Init /\ [][ListenNext]_vars

SpecPush == Init /\ [][PushNext]_vars

SpecPoll == Init /\ [][PollNext]_vars

SpecSidebar == Init /\ [][SidebarNext]_vars

SpecMerge == Init /\ [][MergeNext]_vars

(* the push variant for a user whose backlog nearly fills the retained list *)
CapInit == SvcInit /\ BacklogInit /\ TwinInit /\ UiInit /\ ViewInit /\ ManagerInit

SpecCap == CapInit /\ [][PushNext]_vars

----------------------------------------------------------------------------
(* Properties of WebSocketService *)

(* a WebSocket for channel ch is constructed in this step *)
Created(ch) ==
    \E i \in SocketIds : sockets[i] = NoSocket /\ sockets'[i].chan = ch

(* the close event of socket i is handled in this step *)
CloseEventOf(i) == sockets[i] # NoSocket /\ sockets'[i] = NoSocket

(* C1: once the caller has closed a channel and has not reopened it, no WebSocket
   is constructed for that channel, also not by a reconnect timer scheduled
   before the close *)
C1_NoSocketAfterCallerClose ==
    [][\A ch \in Channels :
         (closedByCaller[ch] /\ closedByCaller'[ch]) => ~Created(ch)]_vars

(* C2: every channel has at most one live (connecting or open) socket and at
   most one pending reconnect timer *)
C2_SingleResource ==
    \A ch \in Channels :
        /\ Cardinality(LiveSockets(ch)) <= 1
        /\ TimerCount(ch) <= 1

(* C3: the close event that follows a close() call by the caller neither
   increments the attempt counter nor starts a reconnect timer *)
C3_CallerCloseSchedulesNothing ==
    [][\A i \in SocketIds :
         (sockets[i].readyState = "CLOSING" /\ CloseEventOf(i))
            => (reconnectAttempts' = reconnectAttempts /\ timers' = timers)]_vars

(* C4: a connect on a channel whose slot holds a socket that is OPEN or
   CONNECTING constructs no WebSocket *)
C4_OpenIsIdempotent ==
    [][\A ch \in Channels :
         (Slot(ch) # 0 /\ Live(sockets[Slot(ch)])) => ~Created(ch)]_vars

(* C9: a failure of a channel that has already failed maxReconnectAttempts
   times in a row schedules no reconnect timer *)
C9_ExhaustedSchedulesNothing ==
    [][\A i \in SocketIds :
         (Live(sockets[i]) /\ CloseEventOf(i)
            /\ failures[sockets[i].chan] >= maxReconnectAttempts)
            => timers' = timers]_vars

(* C10: the k-th consecutive failure of a channel (k from 0, below
   maxReconnectAttempts) schedules its reconnect after reconnectDelay * 2^k,
   whatever happened on the other channels *)
C10_DelayIsPerChannel ==
    [][\A i \in SocketIds :
         (Live(sockets[i]) /\ CloseEventOf(i)
            /\ failures[sockets[i].chan] < maxReconnectAttempts)
            => timers' = timers (+) SetToBag({[chan |-> sockets[i].chan,
                   delay |-> reconnectDelay * Pow2(failures[sockets[i].chan]),
                   onMessage |-> sockets[i].onMessage]})]_vars

(* C11: a sendChatMessage or sendForumMessage call on a channel whose socket is
   not OPEN ends with a returned NotConnected condition: it neither sends nor
   throws *)
C11_SendFailsWithoutException ==
    /\ (outcome.op = "sendChatMessage" /\ ~IsOpen(chatWs))
            => outcome.result = "NotConnected"
    /\ \A category \in Categories :
         (outcome.op = "sendForumMessage" /\ outcome.chan = category
            /\ ~IsOpen(forumWs[category]))
            => outcome.result = "NotConnected"

(* C12: a markNotificationRead, sendChatMessage or sendForumMessage call on a
   channel whose socket is absent or not OPEN reports a failure to its caller,
   as a returned condition or as an exception *)
C12_NoSilentDrop ==
    \A ch \in Channels :
        (outcome.op \in {"markNotificationRead", "sendChatMessage", "sendForumMessage"}
            /\ outcome.chan = ch /\ ~IsOpen(Slot(ch)))
            => outcome.result \in {"NotConnected", "threw"}

(* C13: while the forum view shows a room, no other room has a live socket, an
   entry in the forum map or a pending reconnect *)
C13_OnlySelectedRoomConnected ==
    (selectedCategory # "none") =>
        \A c \in Categories \ {selectedCategory} :
            /\ LiveSockets(c) = {}
            /\ forumWs[c] = 0
            /\ TimerCount(c) = 0

(* C17: a disconnectAll call leaves the notification slot, the chat slot and the
   forum map empty, and no socket that was held by one of them is still
   connecting or open *)
C17_DisconnectAllClosesEverything ==
    [][(outcome'.op = "disconnectAll") =>
         /\ notificationWs' = 0
         /\ chatWs' = 0
         /\ \A c \in Categories : forumWs'[c] = 0
         /\ \A ch \in Channels : (Slot(ch) # 0) => ~Live(sockets'[Slot(ch)])]_vars

(* C17 witness: disconnectAll has just closed the sockets of two forum rooms *)
C17_Witness ==
    /\ outcome.op = "disconnectAll"
    /\ \A c \in Categories :
         \E i \in SocketIds : sockets[i].chan = c /\ sockets[i].readyState = "CLOSING"

(* the slot of channel ch after this step *)
SlotAfter(ch) ==
    IF ch = "notifications" THEN notificationWs'
    ELSE IF ch = "chat" THEN chatWs'
    ELSE forumWs'[ch]

(* C20: the entry of a channel leaves the registry only in a step in which the
   caller closes the channel, never in the handling of a socket's close event *)
C20_RemovedOnlyByCaller ==
    [][\A ch \in Channels :
         (Slot(ch) # 0 /\ SlotAfter(ch) = 0)
            => (closedByCaller'[ch] /\ ~\E i \in SocketIds : CloseEventOf(i))]_vars

(* channel ch lost its socket to a failure, has failed fewer than
   maxReconnectAttempts times in a row, and the caller has not closed it *)
Dropped(ch) ==
    /\ failures[ch] >= 1
    /\ failures[ch] < maxReconnectAttempts
    /\ LiveSockets(ch) = {}
    /\ ~closedByCaller[ch]

(* C18: a channel that was dropped after fewer than maxReconnectAttempts failures
   of its own gets a new socket, or at least has its reconnect pending, unless
   the caller closes it; failures of other channels do not matter. Runs in which
   MaxSockets sockets are in use are not followed further *)
C18_DroppedChannelReconnects ==
    \A ch \in Channels :
        Dropped(ch) ~> \/ LiveSockets(ch) # {}
                       \/ TimerCount(ch) > 0
                       \/ closedByCaller[ch]
                       \/ FreeIds = {}

(* callback l is served by a connection of channel ch of its own *)
HasOwnSocket(ch, l) == \E j \in LiveSockets(ch) : sockets[j].onMessage = l

(* C19: when an inbound message of a channel is handled, every callback that was
   passed to a connect call on the channel since the caller last closed it is
   invoked with the message, or at least is the callback of a live connection of
   its own; this includes a callback passed while the channel was already open *)
C19_EveryListenerReceives ==
    \A ch \in Channels :
        (delivered.chan = ch /\ delivered.parsed)
            => \A l \in subscribed[ch] : l \in delivered.to \/ HasOwnSocket(ch, l)

(* the longest delay of the backoff: the one of the last attempt *)
DelayCap == reconnectDelay * Pow2(maxReconnectAttempts - 1)

(* the timers that this step schedules *)
Scheduled == {t \in BagToSet(timers') : CopiesIn(t, timers') > CopiesIn(t, timers)}

(* C15: the delay of a scheduled reconnect is a function of the attempt number
   alone, is not shorter than the delay of any earlier attempt, and does not
   exceed a fixed cap; the fixed delay of WebSocketManager satisfies the same *)
C15_BackoffMonotoneAndCapped ==
    [][/\ \A t \in Scheduled :
            /\ t.delay = attemptReconnectDelay(reconnectAttempts')
            /\ \A k \in 1..reconnectAttempts' : attemptReconnectDelay(k) <= t.delay
            /\ t.delay <= DelayCap
       /\ \A a, b \in 1..managerMaxReconnectAttempts :
            (a <= b) => /\ managerAttemptReconnectDelay(a) <= managerAttemptReconnectDelay(b)
                        /\ managerAttemptReconnectDelay(b) <= managerReconnectDelay]_vars

(* C15 witness: the reconnect of the last attempt is pending with the longest delay *)
C15_Witness ==
    /\ reconnectAttempts = maxReconnectAttempts
    /\ \E t \in BagToSet(timers) : t.delay = DelayCap

----------------------------------------------------------------------------
(* Properties of the notification components *)

(* C5: two instances that were delivered the same set of notifications, by
   pushes and pull batches in any order and with any duplication, hold the same
   list and the same unread count *)
C5_OrderIndependentMerge ==
    (carried = twinCarried)
        => (notifications = twinNotifications /\ unreadCount = twinUnreadCount)

(* C6: the retained list holds at most one entry per notification id *)
C6_OneEntryPerId ==
    \A i, j \in DOMAIN notifications :
        (i # j) => (notifications[i].id # notifications[j].id)

(* C7: the displayed unread count is the number of retained notifications whose
   is_read is 0 *)
C7_UnreadCountMatches == unreadCount = Unread(notifications)

(* notification id is shown as read / as unread in the list *)
ShownRead(list, id) == \E i \in DOMAIN list : list[i].id = id /\ list[i].is_read = 1

ShownUnread(list, id) == \E i \in DOMAIN list : list[i].id = id /\ list[i].is_read = 0

(* C8: a notification shown as read is not shown as unread by any later step,
   also not by the response of a fetch requested before the mark-as-read *)
C8_ReadIsMonotonic ==
    [][\A id \in NotifIds :
         ShownRead(notifications, id) => ~ShownUnread(notifications', id)]_vars

(* C16: when a mark-as-read request completes, with or without success, the
   notification is not shown as unread in the local list *)
C16_MarkedReadDespiteFailure ==
    [][\A m \in BagToSet(marks) :
         (marks' = marks (-) SetToBag({m})) => ~ShownUnread(notifications', m.id)]_vars

(* the notifications that a step drops from the list although they were retained *)
Evicted == {notifications[i] : i \in DOMAIN notifications} \ {notifications'[i] : i \in DOMAIN notifications'}

(* C14: after every step the retained list holds at most RetainCap entries, and
   an entry dropped from the list is not newer than any entry that stays *)
C14_CappedOldestFirst ==
    [][/\ Len(notifications') <= RetainCap
       /\ \A e \in Evicted : \A i \in DOMAIN notifications' :
             (notifications'[i].id # e.id) => (e.created_at <= notifications'[i].created_at)]_vars

----------------------------------------------------------------------------
(* Further properties of WebSocketService *)

(* C21: when a socket of a channel closes and the reconnect attempts are exhausted
   (attemptReconnect takes its else branch), every callback subscribed to the
   channel is invoked, with an offline status for that channel *)
C21_ExhaustionNotifiesSubscribers ==
    [][\A i \in SocketIds :
         (CloseEventOf(i) /\ reconnectAttempts >= maxReconnectAttempts
            /\ subscribed[sockets[i].chan] # {})
            => /\ delivered'.chan = sockets[i].chan
               /\ subscribed[sockets[i].chan] \subseteq delivered'.to]_vars

(* C23: the close event of an older socket, here one that the caller closed before
   reconnecting, neither clears nor replaces the slot of its channel when the slot
   holds a newer live socket, so the newer socket stays reachable by a disconnect *)
C23_OlderCloseKeepsNewerSlot ==
    [][\A i \in SocketIds :
         LET ch == sockets[i].chan IN
         (CloseEventOf(i) /\ sockets[i].readyState = "CLOSING"
            /\ Slot(ch) \notin {0, i} /\ Live(sockets[Slot(ch)]))
            => SlotAfter(ch) = Slot(ch)]_vars

----------------------------------------------------------------------------
(* the callbacks of the open sockets of channel ch *)
OpenCallbacks(ch) ==
    {sockets[i].onMessage : i \in {j \in SocketIds : sockets[j].chan = ch /\ IsOpen(j)}}

(* C22: the handling of an inbound frame that does not parse invokes no callback
   and changes no socket, no slot, not the attempt counter and no timer; the
   handling of a frame that parses, also one that follows a malformed frame on
   the same channel, invokes the callback of an open socket of the channel *)
C22_MalformedFrameIsHarmless ==
    [][/\ (delivered'.chan # "none" /\ ~delivered'.parsed)
            => /\ delivered'.to = {}
               /\ UNCHANGED <<sockets, notificationWs, chatWs, forumWs,
                              reconnectAttempts, timers>>
       /\ (delivered'.chan # "none" /\ delivered'.parsed)
            => /\ delivered'.to # {}
               /\ delivered'.to \subseteq OpenCallbacks(delivered'.chan)
               /\ UNCHANGED <<sockets, notificationWs, chatWs, forumWs,
                              reconnectAttempts, timers>>]_vars

(* C22 witness: a malformed frame was just handled on the notifications channel
   while a reconnect timer is pending and the attempt counter is not 0, and
   the socket is still open *)
C22_Witness ==
    /\ delivered.chan = "notifications"
    /\ ~delivered.parsed
    /\ delivered.to = {}
    /\ OpenCallbacks("notifications") # {}
    /\ timers # EmptyBag
    /\ reconnectAttempts > 0

(* Properties of WebSocketManager *)

(* C24: a notification frame that the server sends to the user is dispatched as a
   window event once, not once per connection that the manager happens to hold,
   whatever connects, disconnects, close events and timer firings came before *)
C24_FrameDispatchedOnce == dispatched <= 1

(* C29: after disconnect() and until the next connect(), the manager constructs no
   WebSocket, also not when a reconnect timer fires *)
C29_NoSocketAfterDisconnect ==
    [][(managerDisconnected /\ managerDisconnected')
            => \A i \in ManagerSocketIds :
                 (managerSockets[i] = NoManagerSocket) => (managerSockets'[i] = NoManagerSocket)]_vars

(* C29 witness: after disconnect() a close event has scheduled a reconnect and its
   timer has fired; no socket exists *)
C29_Witness ==
    /\ managerDisconnected
    /\ managerReconnectAttempts > 0
    /\ managerTimers = EmptyBag
    /\ \A i \in ManagerSocketIds : managerSockets[i] = NoManagerSocket

(* C30: in a session that follows a disconnect(), the close event of a socket that
   disconnect() closed leaves reconnectAttempts as it is and schedules no timer *)
C30_NewSessionKeepsItsBudget ==
    [][\A i \in ManagerSocketIds :
         (managerSockets[i].readyState = "CLOSING" /\ managerSockets'[i].readyState = "CLOSED"
            /\ userId # 0)
            => /\ managerReconnectAttempts' = managerReconnectAttempts
               /\ managerTimers' = managerTimers]_vars

(* Properties of ForumContent *)

(* C25: while the forum view shows a room, a message that arrives on the
   connection of another room is not appended to the list on display *)
C25_OtherRoomNotAppended ==
    [][(/\ delivered'.chan \in Categories
        /\ delivered'.parsed
        /\ selectedCategory # "none"
        /\ delivered'.chan # selectedCategory)
            => messages' = messages]_vars

(* C26: when the history request of a room completes, the messages of that room
   that the list holds, among them those delivered live while the request was in
   flight, are still in the list *)
C26_FetchKeepsLiveMessages ==
    [][\A f \in BagToSet(history) :
         (history' = history (-) SetToBag({f}) /\ selectedCategory = f.room)
            => {m \in SeqToSet(messages) : m.category = f.room} \subseteq SeqToSet(messages')]_vars

(* Further properties of the notification components *)

(* C27: a poll of the polling dropdown asks for the notifications since the time
   of the last fetch that returned data (the component's lastFetch), so the since
   of a poll made after a poll returned notifications is later than that poll's *)
C27_PollAsksSinceLastFetch ==
    [][\A f \in BagToSet(fetches') :
         (CopiesIn(f, fetches') > CopiesIn(f, fetches) /\ ~f.answered /\ f.since # NoSince)
            => (f.since = lastFetch)]_vars

(* C28: the completion of a mark-as-read request for a notification that the list
   already shows as read changes neither the unread count nor the list *)
C28_MarkIsIdempotent ==
    [][\A m \in BagToSet(marks) :
         (marks' = marks (-) SetToBag({m}) /\ ~ShownUnread(notifications, m.id))
            => (unreadCount' = unreadCount /\ notifications' = notifications)]_vars

====
